---- MODULE Spec2Model ----
(***************************************************************************)
(* Model of mir_eval/pattern.py: the six pattern-discovery metrics, the    *)
(* validation decorator that wraps them and the similarity primitives.     *)
(*                                                                         *)
(* A pattern collection is a sequence of patterns, a pattern a sequence of *)
(* occurrences, an occurrence a sequence of events, an event a tuple of    *)
(* integers (a well-formed one has 2 elements).  Floating-point scores are *)
(* modelled as exact non-negative rationals <<num, den>> in lowest terms.  *)
(* The module is Python 2 code (xrange): int / float division by 0.0       *)
(* raises ZeroDivisionError.                                               *)
(***************************************************************************)
EXTENDS Integers, Sequences, FiniteSets, TLC

VARIABLES reference_patterns, estimated_patterns, call, outcome

vars == <<reference_patterns, estimated_patterns, call, outcome>>

----------------------------------------------------------------------------
(* Bounds of the input universe.                                           *)

\* Patterns in the reference and the estimated collection together.
MaxPatterns == 3
\* Largest n handed to the first-n metrics.
MaxN == 3

----------------------------------------------------------------------------
(* Rational arithmetic standing for the floats of the code.                *)

RECURSIVE GCD(_, _)
GCD(a, b) == IF b = 0 THEN a ELSE GCD(b, a % b)

Rat(n, d) == LET g == GCD(n, d) IN <<n \div g, d \div g>>

Zero == Rat(0, 1)
One == Rat(1, 1)

RAdd(x, y) == Rat(x[1] * y[2] + y[1] * x[2], x[2] * y[2])
RMul(x, y) == Rat(x[1] * y[1], x[2] * y[2])
\* x / y for y # 0
RDiv(x, y) == Rat(x[1] * y[2], x[2] * y[1])
RLe(x, y) == x[1] * y[2] <= y[1] * x[2]
RMax2(x, y) == IF RLe(x, y) THEN y ELSE x

RECURSIVE RSum(_)
RSum(s) == IF s = <<>> THEN Zero ELSE RAdd(Head(s), RSum(Tail(s)))

RECURSIVE RMax(_)
RMax(s) == IF Len(s) = 1 THEN s[1] ELSE RMax2(Head(s), RMax(Tail(s)))

\* The array with the n entries f[1], ..., f[n], each computed once.
RECURSIVE Array(_, _)
Array(f, n) == IF n = 0 THEN <<>> ELSE Append(Array(f, n - 1), f[n])

\* The nP x nQ array with the entries f[i][j].
Array2(f, nP, nQ) == Array([i \in 1..nP |-> Array(f[i], nQ)], nP)

\* np.mean of a non-empty vector
np_mean(s) == RDiv(RSum(s), Rat(Len(s), 1))

\* np.max(M, axis=0): the maximum of every column of an nP x nQ matrix
np_max_axis0(M, nP, nQ) ==
    Array([j \in 1..nQ |-> RMax(Array([i \in 1..nP |-> M[i][j]], nP))], nQ)
\* np.max(M, axis=1): the maximum of every row
np_max_axis1(M, nP, nQ) == Array([i \in 1..nP |-> RMax(M[i])], nP)
\* np.max(M): the maximum of all entries
np_max_all(M, nP, nQ) == RMax(np_max_axis1(M, nP, nQ))

Min(a, b) == IF a <= b THEN a ELSE b
Max(a, b) == IF a >= b THEN a ELSE b
Abs(a) == IF a < 0 THEN 0 - a ELSE a

\* util.f_measure with beta = 1
f_measure(precision, recall) ==
    IF precision = Zero /\ recall = Zero
    THEN Zero
    ELSE RDiv(RMul(Rat(2, 1), RMul(precision, recall)), RAdd(precision, recall))

----------------------------------------------------------------------------
(* Outcomes of a call.                                                     *)

NoWarnings == {}
WarnRef == "Reference patterns are empty."
WarnEst == "Estimated patterns are empty."

\* A call that returned `value` (a sequence of floats) as a tuple or a scalar.
Returned(shape, value, built) ==
    [kind |-> "return", stage |-> "body", shape |-> shape, value |-> value,
     built |-> built, warnings |-> NoWarnings]

\* A call that raised `kind` at `stage` after `built` score matrices.
Raised(kind, stage, built) ==
    [kind |-> kind, stage |-> stage, shape |-> "none", value |-> <<>>,
     built |-> built, warnings |-> NoWarnings]

WithWarnings(o, w) == [o EXCEPT !.warnings = @ \cup w]

----------------------------------------------------------------------------
(* _n_onset_midi and the validate decorator.                               *)

RECURSIVE SumLen(_)
SumLen(s) == IF s = <<>> THEN 0 ELSE Len(Head(s)) + SumLen(Tail(s))

RECURSIVE n_onset_midi(_)
n_onset_midi(patterns) ==
    IF patterns = <<>> THEN 0
    ELSE SumLen(Head(patterns)) + n_onset_midi(Tail(patterns))

\* The check of one pattern in validate's loop: "ok" or the error it raises.
PatternError(pattern) ==
    IF Len(pattern) <= 0 THEN "no_occurrence"
    ELSE IF \E o \in 1..Len(pattern) :
              \E e \in 1..Len(pattern[o]) : Len(pattern[o][e]) # 2
         THEN "bad_tuple"
         ELSE "ok"

\* validate's loop over the patterns of one collection, in order.
RECURSIVE PatternsError(_)
PatternsError(patterns) ==
    IF patterns = <<>> THEN "ok"
    ELSE IF PatternError(Head(patterns)) # "ok" THEN PatternError(Head(patterns))
         ELSE PatternsError(Tail(patterns))

\* Mutant: the loop checks the reference collection only.
StructuralError_ReferenceOnly(ref, est) == PatternsError(ref)

\* validate's loop over [reference_patterns, estimated_patterns].
StructuralError(ref, est) ==
    IF PatternsError(ref) # "ok" THEN PatternsError(ref) ELSE PatternsError(est)

EmptyWarnings(ref, est) ==
    (IF n_onset_midi(ref) = 0 THEN {WarnRef} ELSE {})
        \cup (IF n_onset_midi(est) = 0 THEN {WarnEst} ELSE {})

\* metric_validated: warn, check the structure, then run the metric body,
\* whose outcome is `body`.
metric_validated(ref, est, body) ==
    IF StructuralError(ref, est) # "ok"
    THEN WithWarnings(Raised("ValueError", "validate", 0), EmptyWarnings(ref, est))
    ELSE WithWarnings(body, EmptyWarnings(ref, est))

----------------------------------------------------------------------------
(* Similarity primitives.                                                  *)

Range(s) == {s[i] : i \in 1..Len(s)}

\* Mutant: the events are compared position by position.
occurrence_intersection_Positional(occ_P, occ_Q) ==
    {occ_P[i] : i \in {k \in 1..Min(Len(occ_P), Len(occ_Q)) : occ_P[k] = occ_Q[k]}}

\* _occurrence_intersection: the events two occurrences share, as a set.
occurrence_intersection(occ_P, occ_Q) == Range(occ_P) \cap Range(occ_Q)

\* The row-major position of the k-th cell of a matrix with nQ columns.
RowOf(k, nQ) == ((k - 1) \div nQ) + 1
ColOf(k, nQ) == ((k - 1) % nQ) + 1

\* The first index of a sequence of error names that is not "none", or 0.
FirstError(errs) ==
    IF \A k \in 1..Len(errs) : errs[k] = "none" THEN 0
    ELSE CHOOSE k \in 1..Len(errs) :
             /\ errs[k] # "none"
             /\ \A h \in 1..(k - 1) : errs[h] = "none"

\* Mutant: the similarity metric is never tested.
ScoreCellError_AnyMetric(occ_P, occ_Q, similarity_metric) ==
    IF Max(Len(occ_P), Len(occ_Q)) = 0 THEN "ZeroDivisionError" ELSE "none"

\* What one cell of _compute_score_matrix raises: the similarity metric is
\* tested first, then len(intersection) / denom divides by denom.
ScoreCellError(occ_P, occ_Q, similarity_metric) ==
    IF similarity_metric # "cardinality_score" THEN "ValueError"
    ELSE IF Max(Len(occ_P), Len(occ_Q)) = 0 THEN "ZeroDivisionError"
    ELSE "none"

\* sm[iP, iQ] of _compute_score_matrix
ScoreCell(occ_P, occ_Q) ==
    Rat(Cardinality(occurrence_intersection(occ_P, occ_Q)),
        Max(Len(occ_P), Len(occ_Q)))

\* _compute_score_matrix: [err, sm]; err is what the loop raises at its
\* first failing cell ("none" when it returns sm).
compute_score_matrix(P, Q, similarity_metric) ==
    LET nQ == Len(Q)
        errs == Array([k \in 1..(Len(P) * nQ) |->
                          ScoreCellError(P[RowOf(k, nQ)], Q[ColOf(k, nQ)],
                                         similarity_metric)],
                      Len(P) * nQ)
        first == FirstError(errs)
    IN  IF first # 0
        THEN [err |-> errs[first], sm |-> <<>>]
        ELSE [err |-> "none",
              sm |-> Array2([iP \in 1..Len(P) |->
                               [iQ \in 1..nQ |-> ScoreCell(P[iP], Q[iQ])]],
                            Len(P), nQ)]

----------------------------------------------------------------------------
(* standard_FPR                                                            *)

\* The default tol = 1e-5, as the fraction TolNum / TolDen.
TolNum == 1
TolDen == 100000

\* P - Q of two prototypes of equal length, event by event.
ProtoDiff(P, Q) == [i \in 1..Len(P) |-> <<P[i][1] - Q[i][1], P[i][2] - Q[i][2]>>]

\* np.sum(np.diff(D, axis=0)): the sum of all first differences along the
\* occurrence, over both columns.
RECURSIVE SumDiff(_, _)
SumDiff(D, i) ==
    IF i >= Len(D) THEN 0
    ELSE (D[i + 1][1] - D[i][1]) + (D[i + 1][2] - D[i][2]) + SumDiff(D, i + 1)

\* The test of line 231 on two prototypes of equal length.
IsTransposition(P, Q, tol) == Abs(SumDiff(ProtoDiff(P, Q), 1)) * tol[2] <= tol[1]

\* The inner loop of standard_FPR from estimated pattern j on: the index of
\* the estimated pattern at which the loop breaks, or 0 when it runs out.
RECURSIVE MatchIndex(_, _, _, _)
MatchIndex(P, estimated, j, tol) ==
    IF j > Len(estimated) THEN 0
    ELSE LET Q == estimated[j][1]
         IN  IF Len(P) # Len(Q) THEN MatchIndex(P, estimated, j + 1, tol)
             ELSE IF IsTransposition(P, Q, tol) THEN j
             ELSE MatchIndex(P, estimated, j + 1, tol)

\* Mutant: the inner loop does not break, every matching estimate adds 1.
MatchCount_NoBreak(ref_pattern, estimated, tol) ==
    Cardinality({j \in 1..Len(estimated) :
                    /\ Len(ref_pattern[1]) = Len(estimated[j][1])
                    /\ IsTransposition(ref_pattern[1], estimated[j][1], tol)})

\* What one reference pattern adds to k.
MatchCount(ref_pattern, estimated, tol) ==
    IF MatchIndex(ref_pattern[1], estimated, 1, tol) # 0 THEN 1 ELSE 0

\* The outer loop of standard_FPR: k after the reference patterns from i on.
RECURSIVE CountMatches(_, _, _, _)
CountMatches(reference, estimated, i, tol) ==
    IF i > Len(reference) THEN 0
    ELSE MatchCount(reference[i], estimated, tol)
             + CountMatches(reference, estimated, i + 1, tol)

ZeroTuple == <<Zero, Zero, Zero>>

standard_FPR_body(ref, est, tol) ==
    IF n_onset_midi(ref) = 0 \/ n_onset_midi(est) = 0
    THEN Returned("tuple", ZeroTuple, 0)
    ELSE LET k == CountMatches(ref, est, 1, tol)
             precision == Rat(k, Len(est))
             recall == Rat(k, Len(ref))
         IN  Returned("tuple", <<f_measure(precision, recall), precision, recall>>, 0)

standard_FPR(ref, est, tol) == metric_validated(ref, est, standard_FPR_body(ref, est, tol))

----------------------------------------------------------------------------
(* establishment_FPR                                                       *)

\* The score matrices of all pattern pairs, in the row-major order in which
\* the loops of lines 281-285 and 340-347 build them.
PairScores(ref, est, similarity_metric) ==
    Array([k \in 1..(Len(ref) * Len(est)) |->
              compute_score_matrix(ref[RowOf(k, Len(est))], est[ColOf(k, Len(est))],
                                   similarity_metric)],
          Len(ref) * Len(est))

PairErrors(scores) == Array([k \in 1..Len(scores) |-> scores[k].err], Len(scores))

\* The precision and recall of lines 288-289 and 410-411: the mean of the
\* column maxima and the mean of the row maxima of a matrix.
\* Mutant: the column maxima are taken along the wrong axis.
MeanColMax_Axis1(M, nP, nQ) == np_mean(np_max_axis1(M, nP, nQ))

MeanColMax(M, nP, nQ) == np_mean(np_max_axis0(M, nP, nQ))
MeanRowMax(M, nP, nQ) == np_mean(np_max_axis1(M, nP, nQ))

establishment_FPR_body(ref, est, similarity_metric) ==
    IF n_onset_midi(ref) = 0 \/ n_onset_midi(est) = 0
    THEN Returned("tuple", ZeroTuple, 0)
    ELSE LET nP == Len(ref)
             nQ == Len(est)
             scores == PairScores(ref, est, similarity_metric)
             first == FirstError(PairErrors(scores))
             S == Array2([iP \in 1..nP |-> [iQ \in 1..nQ |->
                            LET s == scores[(iP - 1) * nQ + iQ].sm
                            IN  np_max_all(s, Len(ref[iP]), Len(est[iQ]))]],
                         nP, nQ)
             precision == MeanColMax(S, nP, nQ)
             recall == MeanRowMax(S, nP, nQ)
         IN  IF first # 0
             THEN Raised(scores[first].err, "score_matrix", first - 1)
             ELSE Returned("tuple",
                           <<f_measure(precision, recall), precision, recall>>,
                           nP * nQ)

establishment_FPR(ref, est, similarity_metric) ==
    metric_validated(ref, est, establishment_FPR_body(ref, est, similarity_metric))

----------------------------------------------------------------------------
(* occurrence_FPR                                                          *)

\* Whether the loop of lines 340-347 finds the pair with score matrix s
\* relevant: np.max(s) >= thres.
IsRelevant(s, nP, nQ, thres) == RLe(thres, np_max_all(s, nP, nQ))

\* rel_idx: the pattern pairs <<iP, iQ>> whose score matrix reaches thres,
\* in the order the loop stacks them, from pair k on.
RECURSIVE RelevantFrom(_, _, _, _, _)
RelevantFrom(ref, est, scores, thres, k) ==
    IF k > Len(scores) THEN <<>>
    ELSE LET iP == RowOf(k, Len(est))
             iQ == ColOf(k, Len(est))
             rest == RelevantFrom(ref, est, scores, thres, k + 1)
         IN  IF IsRelevant(scores[k].sm, Len(ref[iP]), Len(est[iQ]), thres)
             THEN <<(<<iP, iQ>>)>> \o rest
             ELSE rest

\* <<O_PR[iP, iQ, 0], O_PR[iP, iQ, 1]>>: zero unless the pair is relevant.
OccurrencePR(ref, est, scores, thres, iP, iQ) ==
    LET s == scores[(iP - 1) * Len(est) + iQ].sm
        nP == Len(ref[iP])
        nQ == Len(est[iQ])
    IN  IF IsRelevant(s, nP, nQ, thres)
        THEN <<MeanColMax(s, nP, nQ), MeanRowMax(s, nP, nQ)>>
        ELSE <<Zero, Zero>>

\* O_PR after the loop of lines 340-347.
OccurrenceMatrix(ref, est, scores, thres) ==
    Array2([iP \in 1..Len(ref) |-> [iQ \in 1..Len(est) |->
               OccurrencePR(ref, est, scores, thres, iP, iQ)]],
           Len(ref), Len(est))

\* O_PR[:, :, c][np.ix_(rel_idx[:, 0], rel_idx[:, 1])]: one row per entry of
\* rel_idx and one column per entry of rel_idx, repeats included.
RelevantSubmatrix(O_PR, rel, c) ==
    Array2([a \in 1..Len(rel) |-> [b \in 1..Len(rel) |->
               O_PR[rel[a][1]][rel[b][2]][c]]],
           Len(rel), Len(rel))

occurrence_FPR_body(ref, est, thres, similarity_metric) ==
    IF n_onset_midi(ref) = 0 \/ n_onset_midi(est) = 0
    THEN Returned("tuple", ZeroTuple, 0)
    ELSE LET scores == PairScores(ref, est, similarity_metric)
             first == FirstError(PairErrors(scores))
             rel == RelevantFrom(ref, est, scores, thres, 1)
             O_PR == OccurrenceMatrix(ref, est, scores, thres)
             n == Len(rel)
             precision ==
                 IF n = 0 THEN Zero
                 ELSE MeanColMax(RelevantSubmatrix(O_PR, rel, 1), n, n)
             recall ==
                 IF n = 0 THEN Zero
                 ELSE MeanRowMax(RelevantSubmatrix(O_PR, rel, 2), n, n)
         IN  IF first # 0
             THEN Raised(scores[first].err, "score_matrix", first - 1)
             ELSE Returned("tuple",
                           <<f_measure(precision, recall), precision, recall>>,
                           Len(scores))

occurrence_FPR(ref, est, thres, similarity_metric) ==
    metric_validated(ref, est, occurrence_FPR_body(ref, est, thres, similarity_metric))

----------------------------------------------------------------------------
(* three_layer_FPR                                                         *)

\* What compute_first_layer_PR raises: s / float(len(ref_occs)), then
\* s / float(len(est_occs)).
FirstLayerError(ref_occs, est_occs) ==
    IF Len(ref_occs) = 0 \/ Len(est_occs) = 0 THEN "ZeroDivisionError" ELSE "none"

\* compute_first_layer_PR: <<precision, recall>>
compute_first_layer_PR(ref_occs, est_occs) ==
    LET s == Cardinality(occurrence_intersection(ref_occs, est_occs))
    IN  <<Rat(s, Len(ref_occs)), Rat(s, Len(est_occs))>>

\* compute_layer(ref_pattern, est_pattern, layer=1): [err, F], F the matrix
\* of the first-layer F-measures of all occurrence pairs.
compute_layer_1(ref_pattern, est_pattern) ==
    LET nP == Len(ref_pattern)
        nQ == Len(est_pattern)
        errs == Array([k \in 1..(nP * nQ) |->
                          FirstLayerError(ref_pattern[RowOf(k, nQ)],
                                          est_pattern[ColOf(k, nQ)])],
                      nP * nQ)
        first == FirstError(errs)
    IN  IF first # 0
        THEN [err |-> errs[first], F |-> <<>>]
        ELSE [err |-> "none",
              F |-> Array2([iP \in 1..nP |-> [iQ \in 1..nQ |->
                              LET pr == compute_first_layer_PR(ref_pattern[iP],
                                                               est_pattern[iQ])
                              IN  f_measure(pr[1], pr[2])]],
                           nP, nQ)]

\* compute_second_layer_PR on a first-layer matrix F_1: <<precision, recall>>
compute_second_layer_PR(F_1, nP, nQ) ==
    <<MeanColMax(F_1, nP, nQ), MeanRowMax(F_1, nP, nQ)>>

\* The first-layer matrices of all pattern pairs, in the row-major order in
\* which compute_layer(layer=2) asks for them.
FirstLayers(ref, est) ==
    Array([k \in 1..(Len(ref) * Len(est)) |->
              compute_layer_1(ref[RowOf(k, Len(est))], est[ColOf(k, Len(est))])],
          Len(ref) * Len(est))

three_layer_FPR_body(ref, est) ==
    IF n_onset_midi(ref) = 0 \/ n_onset_midi(est) = 0
    THEN Returned("tuple", ZeroTuple, 0)
    ELSE LET nP == Len(ref)
             nQ == Len(est)
             layers == FirstLayers(ref, est)
             first == FirstError(PairErrors(layers))
             F_2 == Array2([iP \in 1..nP |-> [iQ \in 1..nQ |->
                              LET pr == compute_second_layer_PR(
                                            layers[(iP - 1) * nQ + iQ].F,
                                            Len(ref[iP]), Len(est[iQ]))
                              IN  f_measure(pr[1], pr[2])]],
                           nP, nQ)
             precision_3 == MeanColMax(F_2, nP, nQ)
             recall_3 == MeanRowMax(F_2, nP, nQ)
         IN  IF first # 0
             THEN Raised(layers[first].err, "first_layer", first - 1)
             ELSE Returned("tuple",
                           <<f_measure(precision_3, recall_3), precision_3, recall_3>>,
                           nP * nQ)

three_layer_FPR(ref, est) == metric_validated(ref, est, three_layer_FPR_body(ref, est))

----------------------------------------------------------------------------
(* The first-n metrics.                                                    *)

\* Mutant: the slice keeps one pattern too many.
FirstN_OffByOne(est, n) == SubSeq(est, 1, Min(Len(est), n + 1))

\* estimated_patterns[:min(len(estimated_patterns), n)] for n >= 0
FirstN(est, n) == SubSeq(est, 1, Min(Len(est), n))

\* "F, P, R = inner; return inner[i]": the i-th score of the validated inner
\* call as a scalar, or the inner call's exception.
Component(inner, i) ==
    IF inner.kind = "return"
    THEN [inner EXCEPT !.shape = "scalar", !.value = <<inner.value[i]>>]
    ELSE inner

first_n_three_layer_P_body(ref, est, n) ==
    IF n_onset_midi(ref) = 0 \/ n_onset_midi(est) = 0
    THEN Returned("tuple", ZeroTuple, 0)
    ELSE Component(three_layer_FPR(ref, FirstN(est, n)), 2)

first_n_three_layer_P(ref, est, n) ==
    metric_validated(ref, est, first_n_three_layer_P_body(ref, est, n))

first_n_target_proportion_R_body(ref, est, n) ==
    IF n_onset_midi(ref) = 0 \/ n_onset_midi(est) = 0
    THEN Returned("tuple", ZeroTuple, 0)
    ELSE Component(establishment_FPR(ref, FirstN(est, n), "cardinality_score"), 3)

first_n_target_proportion_R(ref, est, n) ==
    metric_validated(ref, est, first_n_target_proportion_R_body(ref, est, n))

----------------------------------------------------------------------------
(* The registry of the public metrics and the arguments of a call.         *)

MetricNames ==
    {"standard_FPR", "establishment_FPR", "occurrence_FPR", "three_layer_FPR",
     "first_n_three_layer_P", "first_n_target_proportion_R"}

\* The keyword defaults of the metric signatures.
DefaultArgs ==
    [tol |-> <<TolNum, TolDen>>, thres |-> <<3, 4>>,
     similarity_metric |-> "cardinality_score", n |-> 5]

\* METRICS[c.metric](ref, est, ...): every entry is the validated function.
METRICS(c, ref, est) ==
    CASE c.metric = "standard_FPR" -> standard_FPR(ref, est, c.tol)
      [] c.metric = "establishment_FPR" ->
             establishment_FPR(ref, est, c.similarity_metric)
      [] c.metric = "occurrence_FPR" ->
             occurrence_FPR(ref, est, c.thres, c.similarity_metric)
      [] c.metric = "three_layer_FPR" -> three_layer_FPR(ref, est)
      [] c.metric = "first_n_three_layer_P" -> first_n_three_layer_P(ref, est, c.n)
      [] c.metric = "first_n_target_proportion_R" ->
             first_n_target_proportion_R(ref, est, c.n)

----------------------------------------------------------------------------
(* The inputs: what the external parser hands to the metrics.              *)

\* Events <<onset, midi>>.
EvA == <<0, 0>>
EvB == <<1, 0>>
EvC == <<0, 1>>
\* A tuple that is no (onset, midi) pair.
EvBad == <<0, 0, 0>>

\* The patterns the collections are made of.
PatternCatalog ==
    { <<>>,                                \* no occurrence
      << <<EvBad>> >>,                     \* an event of 3 elements
      << <<>> >>,                          \* one occurrence without events
      << <<>>, <<EvA>> >>,                 \* an empty occurrence next to a full one
      << <<EvA, EvB>> >>,
      << <<EvB, EvA>> >>,                  \* the same events in another order
      << <<EvA, EvC>> >>,
      << <<EvA, EvA>>, <<EvA, EvB>> >> }   \* two occurrences, one repeating an event

\* The collections of exactly k patterns.
Collections(k) == [1..k -> PatternCatalog]

Tolerances == {<<0, 1>>, <<TolNum, TolDen>>}
Thresholds == {<<1, 2>>, <<3, 4>>, <<1, 1>>}
SimilarityMetrics == {"cardinality_score", "normalised_matching_score"}

NoCall == [metric |-> "none"] @@ DefaultArgs
NoOutcome == [kind |-> "none", stage |-> "none", shape |-> "none", value |-> <<>>,
              built |-> 0, warnings |-> {}]

Init ==
    /\ \E k \in 0..MaxPatterns : \E j \in 0..(MaxPatterns - k) :
          /\ reference_patterns \in Collections(k)
          /\ estimated_patterns \in Collections(j)
    /\ call = NoCall
    /\ outcome = NoOutcome

\* A metric is called on inputs no call has been made on yet; the caller is
\* synchronous and the metrics keep no state between calls.
Idle == call.metric = "none"

Call_standard_FPR ==
    /\ Idle
    /\ \E tol \in Tolerances :
          call' = [metric |-> "standard_FPR"] @@ [DefaultArgs EXCEPT !.tol = tol]
    /\ outcome' = METRICS(call', reference_patterns, estimated_patterns)
    /\ UNCHANGED <<reference_patterns, estimated_patterns>>

Call_establishment_FPR ==
    /\ Idle
    /\ \E sim \in SimilarityMetrics :
          call' = [metric |-> "establishment_FPR"]
                      @@ [DefaultArgs EXCEPT !.similarity_metric = sim]
    /\ outcome' = METRICS(call', reference_patterns, estimated_patterns)
    /\ UNCHANGED <<reference_patterns, estimated_patterns>>

Call_occurrence_FPR ==
    /\ Idle
    /\ \E thres \in Thresholds : \E sim \in SimilarityMetrics :
          call' = [metric |-> "occurrence_FPR"]
                      @@ [DefaultArgs EXCEPT !.thres = thres,
                                             !.similarity_metric = sim]
    /\ outcome' = METRICS(call', reference_patterns, estimated_patterns)
    /\ UNCHANGED <<reference_patterns, estimated_patterns>>

Call_three_layer_FPR ==
    /\ Idle
    /\ call' = [metric |-> "three_layer_FPR"] @@ DefaultArgs
    /\ outcome' = METRICS(call', reference_patterns, estimated_patterns)
    /\ UNCHANGED <<reference_patterns, estimated_patterns>>

Call_first_n_three_layer_P ==
    /\ Idle
    /\ \E n \in 0..MaxN :
          call' = [metric |-> "first_n_three_layer_P"] @@ [DefaultArgs EXCEPT !.n = n]
    /\ outcome' = METRICS(call', reference_patterns, estimated_patterns)
    /\ UNCHANGED <<reference_patterns, estimated_patterns>>

Call_first_n_target_proportion_R ==
    /\ Idle
    /\ \E n \in 0..MaxN :
          call' = [metric |-> "first_n_target_proportion_R"]
                      @@ [DefaultArgs EXCEPT !.n = n]
    /\ outcome' = METRICS(call', reference_patterns, estimated_patterns)
    /\ UNCHANGED <<reference_patterns, estimated_patterns>>

Next ==
    \/ Call_standard_FPR
    \/ Call_establishment_FPR
    \/ Call_occurrence_FPR
    \/ Call_three_layer_FPR
    \/ Call_first_n_three_layer_P
    \/ Call_first_n_target_proportion_R

Spec == Init /\ [][Next]_vars

\* The number of patterns on each side when two collections of full
\* patterns are compared.
OccPatterns == 2

\* Patterns that pass the validation and share some, all or none of their
\* events with one another.
OccurrenceCatalog ==
    { << <<EvA, EvB>> >>,
      << <<EvA, EvC>> >>,
      << <<EvC>> >>,
      << <<EvA, EvA>>, <<EvA, EvB>> >> }

\* The metrics are called on two collections of OccPatterns valid patterns.
InitOccurrence ==
    /\ reference_patterns \in [1..OccPatterns -> OccurrenceCatalog]
    /\ estimated_patterns \in [1..OccPatterns -> OccurrenceCatalog]
    /\ call = NoCall
    /\ outcome = NoOutcome

SpecOccurrence == InitOccurrence /\ [][Next]_vars

----------------------------------------------------------------------------
(* Vocabulary of the properties, stated on the inputs themselves.          *)

Called == call.metric # "none"

\* Every pattern has at least one occurrence and every event is a 2-tuple.
WellFormed(patterns) ==
    \A p \in 1..Len(patterns) :
        /\ Len(patterns[p]) >= 1
        /\ \A o \in 1..Len(patterns[p]) :
               \A e \in 1..Len(patterns[p][o]) : Len(patterns[p][o][e]) = 2

ValidInputs == WellFormed(reference_patterns) /\ WellFormed(estimated_patterns)

\* The collection contains at least one event.
HasEvents(patterns) ==
    \E p \in 1..Len(patterns) : \E o \in 1..Len(patterns[p]) : Len(patterns[p][o]) > 0

BothHaveEvents == HasEvents(reference_patterns) /\ HasEvents(estimated_patterns)

FPRMetrics == {"standard_FPR", "establishment_FPR", "occurrence_FPR", "three_layer_FPR"}
FirstNMetrics == {"first_n_three_layer_P", "first_n_target_proportion_R"}

InUnitInterval(v) == RLe(Zero, v) /\ RLe(v, One)

----------------------------------------------------------------------------
(* C1 *)

\* C1: on structurally valid inputs of which one has no event at all, every
\* metric warns, raises nothing and returns exactly (0.0, 0.0, 0.0) (the four
\* FPR metrics) or the single value 0.0 (the two first-n metrics).
C1_EmptyInputZero ==
    (Called /\ ValidInputs /\ ~BothHaveEvents) =>
        /\ outcome.kind = "return"
        /\ outcome.warnings # {}
        /\ call.metric \in FPRMetrics =>
               (outcome.shape = "tuple" /\ outcome.value = <<Zero, Zero, Zero>>)
        /\ call.metric \in FirstNMetrics =>
               (outcome.shape = "scalar" /\ outcome.value = <<Zero>>)

----------------------------------------------------------------------------
(* C2 *)

\* C2: every precision, recall and F-measure a metric returns lies in [0, 1].
C2_ScoresInUnitInterval ==
    (Called /\ ValidInputs /\ outcome.kind = "return") =>
        \A i \in 1..Len(outcome.value) : InUnitInterval(outcome.value[i])

----------------------------------------------------------------------------
(* C3 *)

\* C3: when a pattern of either collection has no occurrence or an event is
\* no 2-tuple, every public metric raises the structural ValueError in the
\* validation wrapper, before its body has built any score matrix and
\* whatever the other collection holds.
C3_StructuralErrorFirst ==
    (Called /\ ~ValidInputs) =>
        /\ outcome.kind = "ValueError"
        /\ outcome.stage = "validate"
        /\ outcome.built = 0

\* A call on a well-formed reference with events and a malformed estimate
\* was rejected.
C3_Witness ==
    /\ Called
    /\ WellFormed(reference_patterns) /\ HasEvents(reference_patterns)
    /\ ~WellFormed(estimated_patterns)
    /\ call.metric = "three_layer_FPR"
    /\ outcome.kind = "ValueError"

----------------------------------------------------------------------------
(* C4 *)

\* C4: a structurally valid collection with at least one event, evaluated
\* against an identical copy of itself, scores (1.0, 1.0, 1.0) under
\* standard_FPR, establishment_FPR and three_layer_FPR, and precision =
\* recall = 1.0 under occurrence_FPR with threshold 1.0.
C4_SelfEvaluationPerfect ==
    (/\ Called
     /\ ValidInputs /\ BothHaveEvents
     /\ estimated_patterns = reference_patterns
     /\ call.similarity_metric = "cardinality_score") =>
        /\ call.metric \in {"standard_FPR", "establishment_FPR", "three_layer_FPR"} =>
               (outcome.kind = "return" /\ outcome.value = <<One, One, One>>)
        /\ (call.metric = "occurrence_FPR" /\ call.thres = One) =>
               (/\ outcome.kind = "return"
                /\ outcome.value[2] = One
                /\ outcome.value[3] = One)

----------------------------------------------------------------------------
(* C5 *)

\* The same call with the reference and the estimate swapped.
SwappedOutcome == METRICS(call, estimated_patterns, reference_patterns)

\* C5: for establishment_FPR and three_layer_FPR, when the call and the call
\* with swapped arguments both return, precision and recall swap and the
\* F-measure is the same.
C5_SwapSwapsPrecisionRecall ==
    (/\ Called
     /\ call.metric \in {"establishment_FPR", "three_layer_FPR"}
     /\ ValidInputs
     /\ outcome.kind = "return") =>
        LET swapped == SwappedOutcome
        IN  swapped.kind = "return" =>
                /\ outcome.value[2] = swapped.value[3]
                /\ outcome.value[3] = swapped.value[2]
                /\ outcome.value[1] = swapped.value[1]

\* A returned establishment score whose precision and recall differ and are
\* both positive, on collections of different sizes.
C5_Witness ==
    /\ Called
    /\ call.metric = "establishment_FPR"
    /\ ValidInputs /\ BothHaveEvents
    /\ Len(reference_patterns) # Len(estimated_patterns)
    /\ outcome.kind = "return"
    /\ SwappedOutcome.kind = "return"
    /\ outcome.value[2] # outcome.value[3]
    /\ outcome.value[2] # Zero
    /\ outcome.value[3] # Zero

----------------------------------------------------------------------------
(* C6 *)

\* The prototype of a pattern: its first occurrence.
Prototype(pattern) == pattern[1]

\* The match count k, read back from the returned recall k / nP.
ReturnedMatches ==
    (outcome.value[3][1] * Len(reference_patterns)) \div outcome.value[3][2]

\* Reference patterns whose prototype is an event-for-event copy of some
\* estimated prototype.
CopiedReferences ==
    {i \in 1..Len(reference_patterns) :
        \E j \in 1..Len(estimated_patterns) :
            Prototype(reference_patterns[i]) = Prototype(estimated_patterns[j])}

\* Reference patterns for which some estimated prototype has as many events.
SameLengthReferences ==
    {i \in 1..Len(reference_patterns) :
        \E j \in 1..Len(estimated_patterns) :
            Len(Prototype(reference_patterns[i])) = Len(Prototype(estimated_patterns[j]))}

\* C6: in standard_FPR on collections that both hold events, every reference
\* pattern whose prototype is copied by an estimated prototype is counted, no
\* reference pattern is counted for estimated prototypes of another length
\* only, and every reference pattern is counted at most once.
C6_StandardMatching ==
    (Called /\ call.metric = "standard_FPR" /\ ValidInputs /\ BothHaveEvents) =>
        /\ outcome.kind = "return"
        /\ outcome.value[2] =
               Rat(ReturnedMatches, Len(estimated_patterns))
        /\ Cardinality(CopiedReferences) <= ReturnedMatches
        /\ ReturnedMatches <= Cardinality(SameLengthReferences)
        /\ ReturnedMatches <= Len(reference_patterns)

\* standard_FPR skipped an estimated prototype of another length and then
\* counted the reference pattern for the estimated prototype that copies it.
C6_Witness ==
    /\ Called /\ call.metric = "standard_FPR"
    /\ ValidInputs /\ BothHaveEvents
    /\ Len(reference_patterns) = 1 /\ Len(estimated_patterns) = 2
    /\ Len(Prototype(reference_patterns[1])) = 2
    /\ Len(Prototype(estimated_patterns[1])) # 2
    /\ Prototype(estimated_patterns[2]) = Prototype(reference_patterns[1])
    /\ outcome.kind = "return"
    /\ ReturnedMatches = 1

----------------------------------------------------------------------------
(* C7 *)

\* C7: on inputs that pass validation, with the default similarity metric,
\* every metric returns a result: no call fails while scoring.
C7_ValidInputsReturn ==
    (Called /\ ValidInputs /\ call.similarity_metric = "cardinality_score") =>
        outcome.kind = "return"

----------------------------------------------------------------------------
(* C8 *)

ScoreMatrixMetrics == {"establishment_FPR", "occurrence_FPR"}

\* C8 as stated: establishment_FPR and occurrence_FPR called on structurally
\* valid collections with a similarity metric other than "cardinality_score"
\* always end in a ValueError, also when a collection holds no event.
C8_UnknownMetricAlwaysRaises ==
    (/\ Called
     /\ call.metric \in ScoreMatrixMetrics
     /\ ValidInputs
     /\ call.similarity_metric # "cardinality_score") =>
        outcome.kind = "ValueError"

\* C8 amended: with a similarity metric other than "cardinality_score",
\* establishment_FPR and occurrence_FPR end in the ValueError of the first
\* score-matrix cell when both collections hold at least one event, and
\* return (0.0, 0.0, 0.0) when one of them holds none.
C8_UnknownMetricRaisesOnEvents ==
    (/\ Called
     /\ call.metric \in ScoreMatrixMetrics
     /\ ValidInputs
     /\ call.similarity_metric # "cardinality_score") =>
        /\ BothHaveEvents =>
               (/\ outcome.kind = "ValueError"
                /\ outcome.stage = "score_matrix"
                /\ outcome.built = 0)
        /\ ~BothHaveEvents =>
               (outcome.kind = "return" /\ outcome.value = <<Zero, Zero, Zero>>)

\* occurrence_FPR with an unknown similarity metric raised on collections with
\* events, one of whose patterns pairs two occurrences without events.
C8_Witness ==
    /\ Called
    /\ call.metric = "occurrence_FPR"
    /\ call.similarity_metric # "cardinality_score"
    /\ ValidInputs /\ BothHaveEvents
    /\ Len(reference_patterns[1][1]) = 0
    /\ Len(estimated_patterns[1][1]) = 0
    /\ outcome.kind = "ValueError"
    /\ outcome.stage = "score_matrix"

----------------------------------------------------------------------------
(* C9 *)

\* The first n patterns of a collection, in their order.
Prefix(patterns, n) ==
    [i \in 1..(IF n < Len(patterns) THEN n ELSE Len(patterns)) |-> patterns[i]]

\* The metric a first-n metric delegates to and the score it keeps.
InnerMetric == IF call.metric = "first_n_three_layer_P"
               THEN "three_layer_FPR" ELSE "establishment_FPR"
InnerComponent == IF call.metric = "first_n_three_layer_P" THEN 2 ELSE 3

\* The full metric on the reference and the given estimate.
InnerOn(est) == METRICS([metric |-> InnerMetric] @@ DefaultArgs, reference_patterns, est)

\* `o` is the single score `i` of the inner outcome, or the inner exception.
IsComponentOf(o, inner, i) ==
    IF inner.kind = "return"
    THEN o.kind = "return" /\ o.shape = "scalar" /\ o.value = <<inner.value[i]>>
    ELSE o.kind = inner.kind

\* C9: on structurally valid collections that both hold events,
\* first_n_three_layer_P is the precision of three_layer_FPR and
\* first_n_target_proportion_R the recall of establishment_FPR on the first n
\* estimated patterns; with n at least the number of estimated patterns it is
\* that score of the metric on the whole estimate.
C9_FirstNIsTruncatedMetric ==
    (Called /\ call.metric \in FirstNMetrics /\ ValidInputs /\ BothHaveEvents) =>
        /\ IsComponentOf(outcome, InnerOn(Prefix(estimated_patterns, call.n)),
                         InnerComponent)
        /\ call.n >= Len(estimated_patterns) =>
               IsComponentOf(outcome, InnerOn(estimated_patterns), InnerComponent)

\* A first-n call that cut the estimate short returned a score that the
\* whole estimate does not have.
C9_Witness ==
    /\ Called /\ call.metric \in FirstNMetrics
    /\ ValidInputs /\ BothHaveEvents
    /\ 0 < call.n /\ call.n < Len(estimated_patterns)
    /\ outcome.kind = "return"
    /\ outcome.value # <<Zero>>
    /\ InnerOn(estimated_patterns).kind = "return"
    /\ outcome.value # <<InnerOn(estimated_patterns).value[InnerComponent]>>

----------------------------------------------------------------------------
(* C10 *)

\* The orderings of the events of one occurrence.
Reorderings(occ) ==
    {[i \in 1..Len(occ) |-> occ[f[i]]] : f \in Permutations(1..Len(occ))}

\* The collections obtained by reordering the events of occurrence o of
\* pattern p, all other occurrences and patterns staying in place.
ReorderedAt(patterns, p, o) ==
    {[patterns EXCEPT ![p][o] = occ] : occ \in Reorderings(patterns[p][o])}

\* The collections obtained by reordering the events of any single occurrence
\* that is, within its pattern, at position `first` or later.
ReorderedFrom(patterns, first) ==
    UNION {UNION {ReorderedAt(patterns, p, o) : o \in first..Len(patterns[p])}
               : p \in 1..Len(patterns)}

\* The outcome is the same for every collection of `refs` as reference and
\* every collection of `ests` as estimate.
SameOutcomeOn(refs, ests) ==
    /\ \A r \in refs : METRICS(call, r, estimated_patterns) = outcome
    /\ \A e \in ests : METRICS(call, reference_patterns, e) = outcome

\* C10 as stated: for every metric, reordering the events of any single
\* occurrence of the reference or of the estimate leaves the outcome unchanged.
C10_EventOrderIrrelevant ==
    (Called /\ ValidInputs) =>
        SameOutcomeOn(ReorderedFrom(reference_patterns, 1),
                      ReorderedFrom(estimated_patterns, 1))

\* C10 amended: reordering the events of a single occurrence leaves the
\* outcome unchanged for every metric but standard_FPR; for standard_FPR,
\* which compares prototypes event by event, it does so when the occurrence
\* is not the first of its pattern.
C10_EventOrderIrrelevantButPrototypes ==
    (Called /\ ValidInputs) =>
        IF call.metric = "standard_FPR"
        THEN SameOutcomeOn(ReorderedFrom(reference_patterns, 2),
                           ReorderedFrom(estimated_patterns, 2))
        ELSE SameOutcomeOn(ReorderedFrom(reference_patterns, 1),
                           ReorderedFrom(estimated_patterns, 1))

\* three_layer_FPR returned a positive score on an estimate whose only
\* occurrence lists the events of the reference's in the opposite order.
C10_Witness ==
    /\ Called /\ call.metric = "three_layer_FPR"
    /\ ValidInputs /\ BothHaveEvents
    /\ Len(reference_patterns) = 1 /\ Len(estimated_patterns) = 1
    /\ Len(reference_patterns[1]) = 1
    /\ estimated_patterns # reference_patterns
    /\ estimated_patterns \in ReorderedAt(reference_patterns, 1, 1)
    /\ outcome.kind = "return"
    /\ outcome.value = <<One, One, One>>

----------------------------------------------------------------------------
(* C11 *)

\* Q is P moved by one constant (onset, pitch) offset: the two prototypes
\* have the same length and P[i] - Q[i] is the same for every i.
ConstantTransposition(P, Q) ==
    /\ Len(P) = Len(Q)
    /\ \A i \in 1..Len(P) :
           /\ P[i][1] - Q[i][1] = P[1][1] - Q[1][1]
           /\ P[i][2] - Q[i][2] = P[1][2] - Q[1][2]

\* Reference patterns whose prototype is a constant transposition of some
\* estimated prototype.
TransposedReferences ==
    {i \in 1..Len(reference_patterns) :
        \E j \in 1..Len(estimated_patterns) :
            ConstantTransposition(Prototype(reference_patterns[i]),
                                  Prototype(estimated_patterns[j]))}

\* C11: standard_FPR with tol = 0 on integer events declares a reference
\* prototype matched only by an estimated prototype of equal length that is
\* a constant additive transposition of it, so it counts no more reference
\* patterns than have such an estimated prototype.
C11_MatchOnlyTranspositions ==
    (/\ Called /\ call.metric = "standard_FPR"
     /\ call.tol = <<0, 1>>
     /\ ValidInputs /\ BothHaveEvents) =>
        /\ outcome.kind = "return"
        /\ ReturnedMatches <= Cardinality(TransposedReferences)

----------------------------------------------------------------------------
(* C12 *)

\* The sum of f over the finite set S.
RECURSIVE RSumOver(_, _)
RSumOver(S, f) ==
    IF S = {} THEN Zero
    ELSE LET x == CHOOSE y \in S : TRUE
         IN  RAdd(f[x], RSumOver(S \ {x}, f))

\* The plain average of f over the non-empty set S: every member once.
PlainMean(S, f) == RDiv(RSumOver(S, f), Rat(Cardinality(S), 1))

\* The largest entry O_PR[iP][iQ][1] of column iQ, and the largest entry
\* O_PR[iP][iQ][2] of row iP.
ColumnMaxPrecision(O_PR, iQ) ==
    RMax(Array([iP \in 1..Len(O_PR) |-> O_PR[iP][iQ][1]], Len(O_PR)))
RowMaxRecall(O_PR, iP) ==
    RMax(Array([iQ \in 1..Len(O_PR[iP]) |-> O_PR[iP][iQ][2]], Len(O_PR[iP])))

\* C12: when occurrence_FPR returns on collections with events, and some
\* pattern pair is relevant, precision is the plain average of the column
\* maxima of the stored precisions over the distinct estimated patterns of
\* the relevant pairs, and recall the plain average of the row maxima of the
\* stored recalls over the distinct reference patterns of the relevant
\* pairs; when no pair is relevant, F-measure, precision and recall are 0.
C12_PlainAverageOverRelevant ==
    (/\ Called /\ call.metric = "occurrence_FPR"
     /\ ValidInputs /\ BothHaveEvents
     /\ outcome.kind = "return") =>
        LET ref == reference_patterns
            est == estimated_patterns
            scores == PairScores(ref, est, call.similarity_metric)
            rel == RelevantFrom(ref, est, scores, call.thres, 1)
            O_PR == OccurrenceMatrix(ref, est, scores, call.thres)
            rows == {rel[k][1] : k \in 1..Len(rel)}
            cols == {rel[k][2] : k \in 1..Len(rel)}
        IN  IF rel = <<>>
            THEN outcome.value = ZeroTuple
            ELSE /\ outcome.value[2] =
                        PlainMean(cols, [iQ \in cols |-> ColumnMaxPrecision(O_PR, iQ)])
                 /\ outcome.value[3] =
                        PlainMean(rows, [iP \in rows |-> RowMaxRecall(O_PR, iP)])

====
